---- MODULE Spec2Model ----
(***************************************************************************)
(* The incremental collection loops of the scrapers:                       *)
(*   TwitterScraper.perform_search  (src/twitter_scraper.py)               *)
(*   YouTubeScraper.perform_search  (src/youtube_scraper.py)               *)
(*   AmazonScraper.run, search_products  (src/amazon_scraper.py)           *)
(*   the month loop and scrape_news  (src/news_sraper.py)                  *)
(* and the functions that build the fields of one record:                  *)
(*   the timestamp resolution of TwitterScraper.perform_search with        *)
(*   TwitterScraper.parse_twitter_date                                     *)
(*   TwitterScraper.convert_to_number, YouTubeScraper.convert_to_number    *)
(*   AmazonScraper.extract_price, AmazonScraper.extract_product_info       *)
(* Each has its own specification, which starts it on every input of a     *)
(* bounded set; the other parts stay idle.                                 *)
(*                                                                         *)
(* Texts and urls are opaque to the loops: only equality between them is   *)
(* ever tested.  A text is therefore named by the order of its first       *)
(* acceptance: with n records accepted, a handle shows the empty text, a   *)
(* text that was accepted before, or the text n+1 that was never accepted. *)
(*                                                                         *)
(* A raw text r is the number 2*c + w: c names the text without its        *)
(* surrounding whitespace (0 is the empty text) and w = 1 says that the    *)
(* raw text carries surrounding whitespace.  str.strip() clears w.         *)
(*                                                                         *)
(* A double d is written as the integer 1000*t + e, where the shortest     *)
(* decimal representation of d is t/10 + e * 10^-17: 0.5 is 5000,          *)
(* 0.30000000000000004 is 3004, 0.7999999999999999 is 7990.                *)
(***************************************************************************)
EXTENDS Integers, Sequences, FiniteSets

\* ------------------------------------------------------------ bounds
\* Most tweets the handles of one find_elements query yield; the handles that
\* yield nothing (skipped, or raising) are not bounded.
MaxYield == 6
\* Cap of the history counter zero_steps.
MaxZeroSteps == 6
\* Most videos the handles of one find_elements query yield.
MaxVideoYield == 3
\* Most handles of a run that repeat the url of an earlier handle of the same
\* query.
MaxRepeats == 1

\* ------------------------------------------------------------ program constants
\* while len(self.tweets) < 150 / if len(self.tweets) >= 150
Target == 150
\* if no_new_tweets_count >= 3
StallThreshold == 3
\* if new_tweets_added > 5
HighYield == 5
\* scroll_pause_time = 0.5
InitialPause == 5000
\* self.target_count = 50
target_count == 50
\* max(0.2, ...)
MinPause == 2000
\* min(1.0, ...)
MaxPause == 10000

VARIABLES
  pc,                   \* position of TwitterScraper.run / perform_search
  tweets,               \* self.tweets
  seen_texts,           \* seen_texts of the current iteration
  broke,                \* the for loop of the current iteration was left by its break
  new_tweets_added,
  no_new_tweets_count,
  last_tweet_count,
  scroll_pause_time,
  saved,                \* save_tweets() has been called with self.tweets
  zero_run,             \* history: zero-yield iterations since the last yield or refresh
  zero_steps,           \* history: zero-yield iterations since the last yield (capped)
  breach_unchanged,     \* history: a threshold breach happened and nothing was accepted since
  reobserved,           \* history: in the iteration after a refresh, a handle showing a text
                        \* accepted before that refresh has been processed
  item_failed           \* history: "yes" when a handle of the current for loop has raised
                        \* inside the try block, "no" when none has; "off" in the
                        \* specifications that do not keep this history

twitterVars == <<pc, tweets, seen_texts, broke, new_tweets_added,
                 no_new_tweets_count, last_tweet_count, scroll_pause_time, saved,
                 zero_run, zero_steps, breach_unchanged, reobserved, item_failed>>

VARIABLES
  ypc,                  \* position of YouTubeScraper.run / perform_search
  videos,               \* self.videos
  new_videos,           \* new_videos of the current iteration
  ysaved,               \* save_videos() has been called with self.videos
  repeats               \* handles so far that repeated a url of their own query

youtubeVars == <<ypc, videos, new_videos, ysaved, repeats>>

VARIABLES
  resolver,             \* the timestamp resolution of one tweet
  counts,               \* the conversion of one count text
  pricing               \* one call of AmazonScraper.extract_price

VARIABLES
  amazon,               \* AmazonScraper: one run, and one call of extract_product_info
  news                  \* the news collection: one run, and the periods of one scrape_news

stampVars == <<resolver>>
numberVars == <<counts>>
priceVars == <<pricing>>
amazonVars == <<amazon>>
newsVars == <<news>>

\* The timestamp resolution of one tweet:
rpc == resolver.rpc               \* its position
time_text == resolver.time_text   \* time_element.text.strip(), as a sequence of tokens
timestamp == resolver.timestamp   \* time_element.get_attribute("datetime")
date_str == resolver.date_str
time_str == resolver.time_str
used == resolver.used             \* history: the fallback stages that were entered
stamp == resolver.stamp           \* the date and time fields of the appended record

\* The conversion of one count text:
npc == counts.npc                 \* its position
value == counts.value             \* the text of a count, as a sequence of characters
tw_number == counts.tw_number     \* what TwitterScraper.convert_to_number returned
yt_number == counts.yt_number     \* what YouTubeScraper.convert_to_number returned

\* One call of AmazonScraper.extract_price:
ppc == pricing.ppc                        \* its position
price_whole == pricing.price_whole        \* the span.a-price-whole of the product element
price_fraction == pricing.price_fraction  \* the span.a-price-fraction of the product element
data_a_price == pricing.data_a_price      \* the data-a-price attribute of its span.a-price
price == pricing.price                    \* what extract_price returns

\* One run of AmazonScraper:
apc == amazon.apc                 \* position of AmazonScraper.run / search_products
driver == amazon.driver           \* self.driver is set
page_num == amazon.page_num
products == amazon.products       \* self.products
pending == amazon.pending         \* product elements of the current page not visited yet
csv_saved == amazon.csv_saved     \* save_to_csv() has been called
csv == amazon.csv                 \* self.products when save_to_csv() was called
driver_quit == amazon.driver_quit \* self.driver.quit() has been called
pages == amazon.pages             \* history: iterations of the page loop
clicks == amazon.clicks           \* history: clicks on the next button
failed_at == amazon.failed_at     \* history: len(self.products) when a driver call raised
                                  \* in search_products, -1 when none has
product_element == amazon.product_element  \* the argument of extract_product_info
info == amazon.info               \* what extract_product_info returns

\* The news collection (src/news_sraper.py); a date is the number of its day
\* in 2024, and an article is named by its url:
npos == news.npos                 \* position of the module and of scrape_news
call == news.call                 \* index of the current month in the list of the module
start_date == news.start_date
end_date == news.end_date
current_date == news.current_date
date_ranges == news.date_ranges   \* the periods of the current scrape_news call
period == news.period             \* index of the period that is searched
all_news == news.all_news
total_articles == news.total_articles  \* of the current scrape_news call
all_articles_df == news.all_articles_df
offered == news.offered           \* history: items the news source has returned

\* What the steps of one part leave alone.
feedVars == <<amazonVars, newsVars>>
nonTwitterVars == <<youtubeVars, stampVars, numberVars, priceVars, feedVars>>
nonYouTubeVars == <<twitterVars, stampVars, numberVars, priceVars, feedVars>>
nonStampVars == <<twitterVars, youtubeVars, numberVars, priceVars, feedVars>>
nonNumberVars == <<twitterVars, youtubeVars, stampVars, priceVars, feedVars>>
nonPriceVars == <<twitterVars, youtubeVars, stampVars, numberVars, feedVars>>
nonAmazonVars ==
  <<twitterVars, youtubeVars, stampVars, numberVars, priceVars, newsVars>>
nonNewsVars ==
  <<twitterVars, youtubeVars, stampVars, numberVars, priceVars, amazonVars>>

vars == <<twitterVars, youtubeVars, stampVars, numberVars, priceVars, feedVars>>

\* ------------------------------------------------------------ helpers

\* str.strip(): the text without its surrounding whitespace
Strip(r) == 2 * (r \div 2)

\* mutant: the seen set starts empty in every iteration
SeenTextsEmpty(tw) == {}

\* {t["text"].strip() for t in self.tweets}
SeenTexts(tw) == {Strip(tw[i].text) : i \in 1..Len(tw)}

\* mutant: only the empty text is skipped
SkippedEmptyOnly(text, seen) == text = 0

\* if not text or text in seen_texts: continue
Skipped(text, seen) == text = 0 \/ text \in seen

\* the record appended to self.tweets (its identity field)
Record(text) == [text |-> text]

\* mutant: the comparison is the wrong way round
LoopCondInverted(tw) == Len(tw) >= Target

\* while len(self.tweets) < 150
LoopCond(tw) == Len(tw) < Target

\* mutant: the break comes one tweet late
ForBreakCondLate(tw) == Len(tw) > Target

\* if len(self.tweets) >= 150: break
ForBreakCond(tw) == Len(tw) >= Target

\* mutant: a yield does not reset the counter
StallCountNoReset(added, count) == IF added = 0 THEN count + 1 ELSE count

\* if new_tweets_added == 0: no_new_tweets_count += 1 else: no_new_tweets_count = 0
StallCount(added, count) == IF added = 0 THEN count + 1 ELSE 0

\* if no_new_tweets_count >= 3
Breach(count) == count >= StallThreshold

\* if len(self.tweets) == last_tweet_count: refresh ... else: break
RefreshCond(tw, last) == Len(tw) = last

\* scroll_pause_time - 0.1 in IEEE-754 double arithmetic
FloatSub01(p) ==
  CASE p = 2000 -> 1000  [] p = 2004 -> 1003  [] p = 2015 -> 1014
    [] p = 3004 -> 2004  [] p = 3016 -> 2015  [] p = 4000 -> 3004
    [] p = 4013 -> 3016  [] p = 5000 -> 4000  [] p = 5010 -> 4013
    [] p = 6000 -> 5000  [] p = 6010 -> 5010  [] p = 7000 -> 6000
    [] p = 7010 -> 6010  [] p = 7990 -> 7000  [] p = 8000 -> 7010
    [] p = 8990 -> 7990  [] p = 9000 -> 8000  [] p = 9990 -> 8990
    [] p = 10000 -> 9000

\* scroll_pause_time + 0.1 in IEEE-754 double arithmetic
FloatAdd01(p) ==
  CASE p = 2000 -> 3004  [] p = 2004 -> 3004  [] p = 2015 -> 3016
    [] p = 3004 -> 4000  [] p = 3016 -> 4013  [] p = 4000 -> 5000
    [] p = 4013 -> 5010  [] p = 5000 -> 6000  [] p = 5010 -> 6010
    [] p = 6000 -> 7000  [] p = 6010 -> 7010  [] p = 7000 -> 7990
    [] p = 7010 -> 8000  [] p = 7990 -> 8990  [] p = 8000 -> 9000
    [] p = 8990 -> 9990  [] p = 9000 -> 10000 [] p = 9990 -> 10990
    [] p = 10000 -> 11000

FloatMax(a, b) == IF a >= b THEN a ELSE b

FloatMin(a, b) == IF a <= b THEN a ELSE b

\* mutant: the result is not held within [0.2, 1.0]
NextPauseUnclamped(added, p) ==
  IF added > HighYield THEN FloatSub01(p) ELSE FloatAdd01(p)

\* mutant: the two branches are the wrong way round
NextPauseReversed(added, p) ==
  IF added > HighYield THEN FloatMin(MaxPause, FloatAdd01(p))
  ELSE FloatMax(MinPause, FloatSub01(p))

\* the dynamic scroll pause adjustment
NextPause(added, p) ==
  IF added > HighYield THEN FloatMax(MinPause, FloatSub01(p))
  ELSE FloatMin(MaxPause, FloatAdd01(p))

\* The raw texts one handle can show: empty or blank, the first or the latest
\* accepted text, a text never accepted; each with or without surrounding
\* whitespace.
HandleTexts(tw) ==
  LET known == IF tw = <<>> THEN {} ELSE {tw[1].text, tw[Len(tw)].text}
      fresh == 2 * (Len(tw) + 1)
  IN  {0, 1} \cup known \cup {t + 1 : t \in known} \cup {fresh, fresh + 1}

Bump(n) == IF n < MaxZeroSteps THEN n + 1 ELSE n

\* The history of raising handles after a handle has raised, and at the end
\* of a for loop.
Raised(h) == IF h = "off" THEN h ELSE "yes"
Cleared(h) == IF h = "off" THEN h ELSE "no"

\* mutant: the record is appended before the lookups that can raise
TweetsAtRaiseAppended(tw, text) == Append(tw, Record(text))

\* self.tweets when the try block is left by an exception: every statement
\* that raises (the lookups of the text, the user name, the link and the time
\* element) comes before the append.
TweetsAtRaise(tw, text) == tw

\* Some accepted record carries this (stripped) text.
Accepted(text, tw) == \E i \in 1..Len(tw) : Strip(tw[i].text) = text

\* mutant: a tweet that is shown again replaces its record, at the end
TweetsAtSkipMoved(tw, text) ==
  IF Accepted(text, tw)
  THEN Append(SelectSeq(tw, LAMBDA r : Strip(r.text) # text), Record(text))
  ELSE tw

\* self.tweets when a handle is skipped: the continue comes before the
\* counters of the handle are read, and nothing is written.
TweetsAtSkip(tw, text) == tw

\* ------------------------------------------------------------ Twitter: state after construction

TwitterFields ==
  /\ pc = "start"
  /\ tweets = <<>>
  /\ seen_texts = {}
  /\ broke = FALSE
  /\ new_tweets_added = 0
  /\ no_new_tweets_count = 0
  /\ last_tweet_count = 0
  /\ scroll_pause_time = InitialPause
  /\ saved = FALSE
  /\ zero_run = 0
  /\ zero_steps = 0
  /\ breach_unchanged = FALSE
  /\ reobserved = FALSE

\* The history of raising handles is not kept.
TwitterInit == TwitterFields /\ item_failed = "off"

\* The history of raising handles is kept.
TwitterInitKept == TwitterFields /\ item_failed = "no"

\* ------------------------------------------------------------ Twitter: perform_search

\* The current iteration is the one that follows a refresh, and nothing has
\* been accepted since that refresh.
AfterRefresh == breach_unchanged /\ no_new_tweets_count = 0

\* The search is entered and the loop variables are set.
Search ==
  /\ pc = "start"
  /\ pc' = "while"
  /\ scroll_pause_time' = InitialPause
  /\ no_new_tweets_count' = 0
  /\ last_tweet_count' = 0
  /\ UNCHANGED <<tweets, seen_texts, broke, new_tweets_added, saved,
                 zero_run, zero_steps, breach_unchanged, reobserved>>
  /\ UNCHANGED item_failed
  /\ UNCHANGED nonTwitterVars

\* The loop condition holds: scroll three times, query the page, start the for loop.
Scroll ==
  /\ pc = "while"
  /\ LoopCond(tweets)
  /\ new_tweets_added' = 0
  /\ seen_texts' = SeenTexts(tweets)
  /\ broke' = FALSE
  /\ pc' = "for"
  /\ UNCHANGED <<tweets, no_new_tweets_count, last_tweet_count, scroll_pause_time,
                 saved, zero_run, zero_steps, breach_unchanged, reobserved>>
  /\ UNCHANGED item_failed
  /\ UNCHANGED nonTwitterVars

\* The loop condition fails: the with block is left.
LoopExit ==
  /\ pc = "while"
  /\ ~LoopCond(tweets)
  /\ pc' = "save"
  /\ UNCHANGED <<tweets, seen_texts, broke, new_tweets_added,
                 no_new_tweets_count, last_tweet_count, scroll_pause_time, saved,
                 zero_run, zero_steps, breach_unchanged, reobserved>>
  /\ UNCHANGED item_failed
  /\ UNCHANGED nonTwitterVars

\* The for loop reaches a further handle with the target already met: break.
ForBreak ==
  /\ pc = "for"
  /\ ForBreakCond(tweets)
  /\ broke' = TRUE
  /\ pc' = "stall"
  /\ reobserved' = FALSE
  /\ UNCHANGED <<tweets, seen_texts, new_tweets_added, no_new_tweets_count,
                 last_tweet_count, scroll_pause_time, saved,
                 zero_run, zero_steps, breach_unchanged>>
  /\ item_failed' = Cleared(item_failed)
  /\ UNCHANGED nonTwitterVars

\* A further handle, for which find_element of the text raises: the except
\* clause logs and continues.
TweetNoText ==
  /\ pc = "for"
  /\ ~ForBreakCond(tweets)
  /\ UNCHANGED <<pc, tweets, seen_texts, broke, new_tweets_added,
                 no_new_tweets_count, last_tweet_count, scroll_pause_time, saved,
                 zero_run, zero_steps, breach_unchanged, reobserved>>
  /\ item_failed' = Raised(item_failed)
  /\ UNCHANGED nonTwitterVars

\* A further handle, whose text is read: it is skipped (empty or seen), or
\* the rest of the record is built, which raises (ok = FALSE: a missing user
\* name, link or time element) or ends in the append.
ProcessTweet ==
  /\ pc = "for"
  /\ ~ForBreakCond(tweets)
  /\ \E raw \in HandleTexts(tweets) :
       LET text == Strip(raw) IN
       /\ IF Skipped(text, seen_texts)
          THEN /\ tweets' = TweetsAtSkip(tweets, text)
               /\ UNCHANGED <<seen_texts, new_tweets_added, breach_unchanged,
                              item_failed>>
          ELSE \E ok \in BOOLEAN :
                 IF ~ok
                 THEN /\ tweets' = TweetsAtRaise(tweets, text)
                      /\ item_failed' = Raised(item_failed)
                      /\ UNCHANGED <<seen_texts, new_tweets_added,
                                     breach_unchanged>>
                 ELSE /\ new_tweets_added < MaxYield
                      /\ tweets' = Append(tweets, Record(text))
                      /\ seen_texts' = seen_texts \cup {text}
                      /\ new_tweets_added' = new_tweets_added + 1
                      /\ breach_unchanged' = FALSE
                      /\ UNCHANGED item_failed
       /\ reobserved' = (reobserved \/ (AfterRefresh /\ Accepted(text, tweets)))
  /\ UNCHANGED <<pc, broke, no_new_tweets_count, last_tweet_count,
                 scroll_pause_time, saved, zero_run, zero_steps>>
  /\ UNCHANGED nonTwitterVars

\* The for loop has visited every handle of the query.
ForEnd ==
  /\ pc = "for"
  /\ pc' = "stall"
  /\ reobserved' = FALSE
  /\ UNCHANGED <<tweets, seen_texts, broke, new_tweets_added,
                 no_new_tweets_count, last_tweet_count, scroll_pause_time, saved,
                 zero_run, zero_steps, breach_unchanged>>
  /\ item_failed' = Cleared(item_failed)
  /\ UNCHANGED nonTwitterVars

\* "Check if we're still finding new tweets"
Stall ==
  /\ pc = "stall"
  /\ no_new_tweets_count' = StallCount(new_tweets_added, no_new_tweets_count)
  /\ zero_run' = IF new_tweets_added = 0 THEN zero_run + 1 ELSE 0
  /\ zero_steps' = IF new_tweets_added = 0 THEN Bump(zero_steps) ELSE 0
  /\ pc' = "check"
  /\ UNCHANGED <<tweets, seen_texts, broke, new_tweets_added, last_tweet_count,
                 scroll_pause_time, saved, breach_unchanged, reobserved>>
  /\ UNCHANGED item_failed
  /\ UNCHANGED nonTwitterVars

\* mutant: the count is stored only when the page is refreshed
LastTweetCountAtRefresh(tw, last, refreshed) == IF refreshed THEN Len(tw) ELSE last

\* last_tweet_count = len(self.tweets), at the end of every iteration
LastTweetCount(tw, last, refreshed) == Len(tw)

\* The threshold check, then last_tweet_count and the pause adjustment.
Check ==
  /\ pc = "check"
  /\ IF Breach(no_new_tweets_count) /\ ~RefreshCond(tweets, last_tweet_count)
     THEN \* "No more tweets available": break
          /\ pc' = "save"
          /\ UNCHANGED <<no_new_tweets_count, last_tweet_count, scroll_pause_time,
                         zero_run>>
     ELSE /\ IF Breach(no_new_tweets_count)
             THEN \* self.driver.refresh()
                  /\ no_new_tweets_count' = 0
                  /\ zero_run' = 0
             ELSE UNCHANGED <<no_new_tweets_count, zero_run>>
          /\ last_tweet_count' = LastTweetCount(tweets, last_tweet_count,
                                                 Breach(no_new_tweets_count))
          /\ scroll_pause_time' = NextPause(new_tweets_added, scroll_pause_time)
          /\ pc' = "while"
  /\ breach_unchanged' = IF Breach(no_new_tweets_count) THEN TRUE ELSE breach_unchanged
  /\ UNCHANGED <<tweets, seen_texts, broke, new_tweets_added, saved, zero_steps,
                 reobserved>>
  /\ UNCHANGED item_failed
  /\ UNCHANGED nonTwitterVars

\* self.save_tweets()
Save ==
  /\ pc = "save"
  /\ saved' = TRUE
  /\ pc' = "done"
  /\ UNCHANGED <<tweets, seen_texts, broke, new_tweets_added,
                 no_new_tweets_count, last_tweet_count, scroll_pause_time,
                 zero_run, zero_steps, breach_unchanged, reobserved>>
  /\ UNCHANGED item_failed
  /\ UNCHANGED nonTwitterVars

\* A driver call raises (the search box wait, execute_script, find_elements,
\* refresh): the outer except clause logs the error and perform_search returns.
DriverFail ==
  /\ \/ pc = "start"
     \/ pc = "while" /\ LoopCond(tweets)
     \/ pc = "check" /\ Breach(no_new_tweets_count)
                     /\ RefreshCond(tweets, last_tweet_count)
  /\ pc' = "failed"
  /\ UNCHANGED <<tweets, seen_texts, broke, new_tweets_added,
                 no_new_tweets_count, last_tweet_count, scroll_pause_time, saved,
                 zero_run, zero_steps, breach_unchanged, reobserved>>
  /\ UNCHANGED item_failed
  /\ UNCHANGED nonTwitterVars

\* run(): self.driver.quit() after perform_search has returned
Quit ==
  /\ pc \in {"done", "failed"}
  /\ pc' = "quit"
  /\ UNCHANGED <<tweets, seen_texts, broke, new_tweets_added,
                 no_new_tweets_count, last_tweet_count, scroll_pause_time, saved,
                 zero_run, zero_steps, breach_unchanged, reobserved>>
  /\ UNCHANGED item_failed
  /\ UNCHANGED nonTwitterVars

\* The steps of the run in which no driver call raises.
TwitterStep ==
  \/ Search
  \/ Scroll
  \/ LoopExit
  \/ ForBreak
  \/ TweetNoText
  \/ ProcessTweet
  \/ ForEnd
  \/ Stall
  \/ Check
  \/ Save
  \/ Quit

TwitterNext == TwitterStep \/ DriverFail

\* ------------------------------------------------------------ YouTube: state after construction

YouTubeInit ==
  /\ ypc = "start"
  /\ videos = <<>>
  /\ new_videos = <<>>
  /\ ysaved = FALSE
  /\ repeats = 0

\* ------------------------------------------------------------ YouTube: perform_search

\* while len(self.videos) < self.target_count
VideoLoopCond(vs) == Len(vs) < target_count

\* if len(self.videos) >= self.target_count: break
VideoBreakCond(vs) == Len(vs) >= target_count

\* any(v["url"] == video_url for v in self.videos)
KnownUrl(url, vs) == \E i \in 1..Len(vs) : vs[i].url = url

\* the record appended to new_videos (its identity field)
Video(url) == [url |-> url]

\* if new_videos: self.videos.extend(new_videos)
Extend(vs, new) == IF new # <<>> THEN vs \o new ELSE vs

\* The urls one handle can show: the url of the first or the latest collected
\* video, the url of the latest handle of this query, a url not met before.
HandleUrls(vs, new) ==
  (IF vs = <<>> THEN {} ELSE {vs[1].url, vs[Len(vs)].url})
    \cup (IF new = <<>> THEN {} ELSE {new[Len(new)].url})
    \cup {Len(vs) + Len(new) + 1}

\* The search page is opened and its first videos are awaited.
VideoSearch ==
  /\ ypc = "start"
  /\ ypc' = "while"
  /\ UNCHANGED <<videos, new_videos, ysaved, repeats>>
  /\ UNCHANGED nonYouTubeVars

\* The loop condition holds: query the page and start the for loop over the
\* handles behind the first len(self.videos) ones.
VideoQuery ==
  /\ ypc = "while"
  /\ VideoLoopCond(videos)
  /\ new_videos' = <<>>
  /\ ypc' = "for"
  /\ UNCHANGED <<videos, ysaved, repeats>>
  /\ UNCHANGED nonYouTubeVars

\* The loop condition fails.
VideoLoopExit ==
  /\ ypc = "while"
  /\ ~VideoLoopCond(videos)
  /\ ypc' = "save"
  /\ UNCHANGED <<videos, new_videos, ysaved, repeats>>
  /\ UNCHANGED nonYouTubeVars

\* A further handle, for which an element lookup raises: the except clause
\* logs and continues.
VideoError ==
  /\ ypc = "for"
  /\ ~VideoBreakCond(videos)
  /\ UNCHANGED <<ypc, videos, new_videos, ysaved, repeats>>
  /\ UNCHANGED nonYouTubeVars

\* A further handle, whose record is built: it is added to new_videos unless
\* its url is the url of a record of self.videos.
ProcessVideo ==
  /\ ypc = "for"
  /\ ~VideoBreakCond(videos)
  /\ \E url \in HandleUrls(videos, new_videos) :
       IF KnownUrl(url, videos)
       THEN UNCHANGED <<new_videos, repeats>>
       ELSE /\ Len(new_videos) < MaxVideoYield
            /\ new_videos' = Append(new_videos, Video(url))
            /\ IF KnownUrl(url, new_videos)
               THEN repeats < MaxRepeats /\ repeats' = repeats + 1
               ELSE UNCHANGED repeats
  /\ UNCHANGED <<ypc, videos, ysaved>>
  /\ UNCHANGED nonYouTubeVars

\* The for loop is left (no further handle, or the break) and the progress
\* is updated.
VideoExtend ==
  /\ ypc = "for"
  /\ videos' = Extend(videos, new_videos)
  /\ ypc' = "more"
  /\ UNCHANGED <<new_videos, ysaved, repeats>>
  /\ UNCHANGED nonYouTubeVars

\* mutant: the loop goes on whatever scroll_to_load_more() returns
LoadMoreBreakNever(returned) == FALSE

\* if not self.scroll_to_load_more(): break
LoadMoreBreak(returned) == ~returned

\* "Try to load more videos if needed": scroll_to_load_more() scrolls three
\* times and returns with the page height changed ("new_height") or the same
\* as before ("same_height").
VideoLoadMore ==
  /\ ypc = "more"
  /\ IF VideoLoopCond(videos)
     THEN \E changed \in BOOLEAN :
            ypc' = IF changed THEN "new_height" ELSE "same_height"
     ELSE ypc' = "while"
  /\ UNCHANGED <<videos, new_videos, ysaved, repeats>>
  /\ UNCHANGED nonYouTubeVars

\* The value scroll_to_load_more() returned is tested: break, or wait for the
\* new videos and go round the loop.
VideoBreak ==
  /\ ypc \in {"new_height", "same_height"}
  /\ ypc' = IF LoadMoreBreak(ypc = "new_height") THEN "save" ELSE "while"
  /\ UNCHANGED <<videos, new_videos, ysaved, repeats>>
  /\ UNCHANGED nonYouTubeVars

\* self.save_videos()
VideoSave ==
  /\ ypc = "save"
  /\ ysaved' = TRUE
  /\ ypc' = "done"
  /\ UNCHANGED <<videos, new_videos, repeats>>
  /\ UNCHANGED nonYouTubeVars

\* A driver call raises (get, the wait, find_elements, execute_script): the
\* except clause of perform_search logs the error.
VideoDriverFail ==
  /\ \/ ypc = "start"
     \/ ypc = "while" /\ VideoLoopCond(videos)
     \/ ypc = "more" /\ VideoLoopCond(videos)
  /\ ypc' = "failed"
  /\ UNCHANGED <<videos, new_videos, ysaved, repeats>>
  /\ UNCHANGED nonYouTubeVars

\* run(): self.driver.quit() in the finally clause
VideoQuit ==
  /\ ypc \in {"done", "failed"}
  /\ ypc' = "quit"
  /\ UNCHANGED <<videos, new_videos, ysaved, repeats>>
  /\ UNCHANGED nonYouTubeVars

YouTubeNext ==
  \/ VideoSearch
  \/ VideoQuery
  \/ VideoLoopExit
  \/ VideoError
  \/ ProcessVideo
  \/ VideoExtend
  \/ VideoLoadMore
  \/ VideoBreak
  \/ VideoSave
  \/ VideoDriverFail
  \/ VideoQuit

\* ------------------------------------------------------------ Twitter: timestamp resolution
\* The displayed time text is a sequence of tokens that stand side by side,
\* separated by blanks.  Dot is the middle dot; the other tokens are the
\* texts below.  What each string operation of the code makes of a token is
\* tabulated next to the operation.

\* Longest displayed time text, in tokens.
MaxTextLen == 3

\* Python's None
None == "None"

\* the middle dot of '9:54 pm . 15 Oct 2018'
Dot == "."

Tokens ==
  {Dot, "9:54 PM", "13:00 pm", "09:54", "Oct 15, 2018", "15 Oct, 2018",
   "3 Mar 2021", "Oct 15", "2h", "2 hours ago", "Now"}

TimeTexts == UNION {[1..n -> Tokens] : n \in 0..MaxTextLen}

\* the datetime attribute: missing, empty, well-formed, malformed
Timestamps == {None, "", "2018-10-16T08:30:00.000Z", "yesterday"}

\* datetime.now() while the tweet is processed
NowDate == "2024-05-06"
NowTime == "12:00:00"

\* not s, for s a string or None
Falsy(s) == s = None \/ s = ""

\* any(word in tok.lower() for word in ['now', 'min', 'hour', 'day', 'week',
\* 'month', 'year'])
RelativeWord(tok) == tok \in {"2 hours ago", "Now"}

\* the same test on the whole text
IsRelative(text) == \E i \in 1..Len(text) : RelativeWord(text[i])

\* '.' in time_text
HasDot(text) == \E i \in 1..Len(text) : text[i] = Dot

\* time_text.split('.'), each part stripped
RECURSIVE SplitDot(_)
SplitDot(text) ==
  IF ~HasDot(text) THEN <<text>>
  ELSE LET i == CHOOSE k \in 1..Len(text) :
                  text[k] = Dot /\ \A j \in 1..(k - 1) : text[j] # Dot
       IN  <<SubSeq(text, 1, i - 1)>> \o SplitDot(SubSeq(text, i + 1, Len(text)))

\* 'pm' in time_part.lower() or 'am' in time_part.lower()
HasMeridiem(part) == \E i \in 1..Len(part) : part[i] \in {"9:54 PM", "13:00 pm"}

\* ',' in date_part
HasComma(part) ==
  \E i \in 1..Len(part) : part[i] \in {"Oct 15, 2018", "15 Oct, 2018"}

\* datetime.strptime(time_part, '%I:%M %p').strftime('%H:%M:%S'); None
\* stands for the ValueError
Strptime12(part) ==
  IF part = <<"9:54 PM">> THEN "21:54:00" ELSE None

\* datetime.strptime(time_part, '%H:%M').strftime('%H:%M:%S')
Strptime24(part) ==
  IF part = <<"09:54">> THEN "09:54:00" ELSE None

\* datetime.strptime(date_part, '%b %d, %Y').strftime('%Y-%m-%d')
StrptimeMonthFirst(part) ==
  IF part = <<"Oct 15, 2018">> THEN "2018-10-15" ELSE None

\* datetime.strptime(date_part, '%d %b %Y').strftime('%Y-%m-%d')
StrptimeDayFirst(part) ==
  IF part = <<"3 Mar 2021">> THEN "2021-03-03" ELSE None

\* mutant: the relative-time test is missing
parse_twitter_date_absolute(text) ==
  IF ~HasDot(text) THEN <<None, None>>
  ELSE
    LET parts == SplitDot(text) IN
    IF Len(parts) # 2 THEN <<None, None>>
    ELSE
      LET t == IF HasMeridiem(parts[1]) THEN Strptime12(parts[1])
               ELSE Strptime24(parts[1])
          d == IF HasComma(parts[2]) THEN StrptimeMonthFirst(parts[2])
               ELSE StrptimeDayFirst(parts[2])
      IN  IF t = None \/ d = None THEN <<None, None>> ELSE <<d, t>>

\* mutant: a date that fails to parse leaves the parsed time in the result
parse_twitter_date_partial(text) ==
  IF IsRelative(text) THEN <<NowDate, NowTime>>
  ELSE IF ~HasDot(text) \/ Len(SplitDot(text)) # 2 THEN <<None, None>>
  ELSE
    LET parts == SplitDot(text)
        t == IF HasMeridiem(parts[1]) THEN Strptime12(parts[1])
             ELSE Strptime24(parts[1])
        d == IF HasComma(parts[2]) THEN StrptimeMonthFirst(parts[2])
             ELSE StrptimeDayFirst(parts[2])
    IN  IF t = None THEN <<None, None>> ELSE <<d, t>>

\* parse_twitter_date: the pair (date_str, time_str)
parse_twitter_date(text) ==
  IF IsRelative(text) THEN <<NowDate, NowTime>>
  ELSE IF ~HasDot(text) THEN <<None, None>>
  ELSE
    LET parts == SplitDot(text) IN
    IF Len(parts) # 2 THEN <<None, None>>
    ELSE
      LET time_part == parts[1]
          date_part == parts[2]
          t == IF HasMeridiem(time_part) THEN Strptime12(time_part)
               ELSE Strptime24(time_part)
      IN  IF t = None THEN <<None, None>>
          ELSE
            LET d == IF HasComma(date_part) THEN StrptimeMonthFirst(date_part)
                     ELSE StrptimeDayFirst(date_part)
            IN  IF d = None THEN <<None, None>> ELSE <<d, t>>

\* datetime.fromisoformat(timestamp.replace('Z', '+00:00')) and the two
\* strftime calls: the exception raised ("" for none) and the pair
FromIsoFormat(ts) ==
  IF ts = None THEN [exc |-> "AttributeError", date |-> None, time |-> None]
  ELSE IF ts = "2018-10-16T08:30:00.000Z"
       THEN [exc |-> "", date |-> "2018-10-16", time |-> "08:30:00"]
       ELSE [exc |-> "ValueError", date |-> None, time |-> None]

\* mutant: only ValueError is caught
AttrCaughtValueError(exc) == exc = "ValueError"

\* except Exception as e (of the attribute stage)
AttrCaught(exc) == exc \in {"AttributeError", "ValueError"}

\* mutant: the attribute is parsed whatever the displayed text gave
AttrCondAlways(d, t) == TRUE

\* if not date_str or not time_str (before the attribute stage)
AttrCond(d, t) == Falsy(d) \/ Falsy(t)

\* if not date_str or not time_str (before the last resort)
DefaultCond(d, t) == Falsy(d) \/ Falsy(t)

\* No tweet is being resolved.
StampIdle ==
  resolver = [rpc |-> "idle", time_text |-> <<>>, timestamp |-> None,
              date_str |-> None, time_str |-> None, used |-> {},
              stamp |-> [date |-> None, time |-> None]]

\* The time element of a tweet has been read.
StampInit ==
  \E text \in TimeTexts, ts \in Timestamps :
    resolver = [rpc |-> "text", time_text |-> text, timestamp |-> ts,
                date_str |-> None, time_str |-> None, used |-> {},
                stamp |-> [date |-> None, time |-> None]]

\* "First try parsing the displayed text"
ParseText ==
  /\ rpc = "text"
  /\ resolver' = [resolver EXCEPT !.date_str = parse_twitter_date(time_text)[1],
                                  !.time_str = parse_twitter_date(time_text)[2],
                                  !.rpc = "attr"]
  /\ UNCHANGED nonStampVars

\* "If that fails, try using the datetime attribute"
AttrStage ==
  /\ rpc = "attr"
  /\ resolver' =
       IF AttrCond(date_str, time_str)
       THEN LET r == FromIsoFormat(timestamp) IN
            IF r.exc = ""
            THEN [resolver EXCEPT !.used = used \cup {"attribute"},
                                  !.date_str = r.date,
                                  !.time_str = r.time,
                                  !.rpc = "default"]
            ELSE [resolver EXCEPT !.used = used \cup {"attribute"},
                                  !.rpc = IF AttrCaught(r.exc) THEN "default"
                                          ELSE "raised"]
       ELSE [resolver EXCEPT !.rpc = "default"]
  /\ UNCHANGED nonStampVars

\* "Use current time as last resort"
DefaultStage ==
  /\ rpc = "default"
  /\ resolver' =
       IF DefaultCond(date_str, time_str)
       THEN [resolver EXCEPT !.date_str = NowDate,
                             !.time_str = NowTime,
                             !.used = used \cup {"default"},
                             !.rpc = "append"]
       ELSE [resolver EXCEPT !.rpc = "append"]
  /\ UNCHANGED nonStampVars

\* self.tweets.append({... "time": time_str, "date": date_str, ...})
AppendStamp ==
  /\ rpc = "append"
  /\ resolver' = [resolver EXCEPT !.stamp = [date |-> date_str, time |-> time_str],
                                  !.rpc = "done"]
  /\ UNCHANGED nonStampVars

StampNext ==
  \/ ParseText
  \/ AttrStage
  \/ DefaultStage
  \/ AppendStamp

\* ------------------------------------------------------------ convert_to_number
\* A count text is a sequence of characters.  A number n is written as the
\* record [m |-> n \div 10^6, u |-> n % 10^6], which keeps the billions
\* within the integers of the model checker.

\* Longest count text, in characters.
MaxValueLen == 4

Digits == {"1", "2", "4"}
Letters == {"K", "k", "M", "m", "B", "b", "N", "A"}
Chars == Digits \cup Letters \cup {",", ".", "/"}

Values == UNION {[1..n -> Chars] : n \in 0..MaxValueLen}

RECURSIVE Pow10(_)
Pow10(k) == IF k = 0 THEN 1 ELSE 10 * Pow10(k - 1)

\* the number n, for n < 2^31
Num(n) == [m |-> n \div Pow10(6), u |-> n % Pow10(6)]

\* the number n * 10^k, for n * 10^k < 2^31 or k >= 6
Shift(n, k) ==
  IF k >= 6 THEN [m |-> n * Pow10(k - 6), u |-> 0] ELSE Num(n * Pow10(k))

\* the number x - 1, for x > 0
Pred(x) ==
  IF x.u > 0 THEN [m |-> x.m, u |-> x.u - 1]
  ELSE [m |-> x.m - 1, u |-> Pow10(6) - 1]

\* s.replace(c, '')
Remove(s, c) == SelectSeq(s, LAMBDA x : x # c)

\* c in s
Contains(s, c) == \E i \in 1..Len(s) : s[i] = c

\* s.upper()
Upper(s) ==
  [i \in 1..Len(s) |->
     CASE s[i] = "k" -> "K" [] s[i] = "m" -> "M" [] s[i] = "b" -> "B"
       [] OTHER -> s[i]]

\* s.lower()
Lower(s) ==
  [i \in 1..Len(s) |->
     CASE s[i] = "K" -> "k" [] s[i] = "M" -> "m" [] s[i] = "B" -> "b"
       [] s[i] = "N" -> "n" [] s[i] = "A" -> "a" [] OTHER -> s[i]]

\* s.isdigit()
IsDigit(s) == s # <<>> /\ \A i \in 1..Len(s) : s[i] \in Digits

DigitValue(c) == CASE c = "1" -> 1 [] c = "2" -> 2 [] c = "4" -> 4

\* the value of a sequence of digits (0 for the empty one)
RECURSIVE DigitsValue(_)
DigitsValue(s) ==
  IF s = <<>> THEN 0
  ELSE 10 * DigitsValue(SubSeq(s, 1, Len(s) - 1)) + DigitValue(s[Len(s)])

\* float(s) does not raise ValueError: digits with at most one point, and at
\* least one digit
FloatOk(s) ==
  /\ \A i \in 1..Len(s) : s[i] \in Digits \cup {"."}
  /\ Cardinality({i \in 1..Len(s) : s[i] = "."}) <= 1
  /\ \E i \in 1..Len(s) : s[i] \in Digits

\* the digits of s before and after its point
Whole(s) ==
  IF Contains(s, ".")
  THEN SubSeq(s, 1, (CHOOSE i \in 1..Len(s) : s[i] = ".") - 1)
  ELSE s

Fraction(s) ==
  IF Contains(s, ".")
  THEN SubSeq(s, (CHOOSE i \in 1..Len(s) : s[i] = ".") + 1, Len(s))
  ELSE <<>>

\* the decimal number s times 10^e, cut to an integer
ExactTimes(s, e) ==
  LET n == DigitsValue(Whole(s) \o Fraction(s))
      f == Len(Fraction(s))
  IN  IF e >= f THEN Shift(n, e - f) ELSE Num(n \div Pow10(f - e))

\* The products float(s) * 10^e that IEEE-754 double arithmetic rounds to
\* just below the exact product (4.1 * 1000000 is 4099999.999999999), among
\* the decimals of up to four characters over Digits.
RoundedBelow ==
  {<<<<"4", ".", "1">>, 6>>, <<<<"4", ".", "1">>, 9>>,
   <<<<"2", ".", "1", "1">>, 9>>, <<<<"4", ".", "1", "4">>, 6>>,
   <<<<"4", ".", "1", "4">>, 9>>, <<<<"4", ".", "2", "2">>, 9>>}

\* int(float(s) * 10**e), for s with FloatOk(s)
IntFloatTimes(s, e) ==
  IF <<s, e>> \in RoundedBelow THEN Pred(ExactTimes(s, e)) ELSE ExactTimes(s, e)

\* TwitterScraper.convert_to_number: one magnitude branch
Magnitude(up, letter, e) ==
  IF FloatOk(Remove(up, letter)) THEN IntFloatTimes(Remove(up, letter), e)
  ELSE Num(0)

\* TwitterScraper.convert_to_number
convert_to_number(v) ==
  LET val == Remove(v, ",")
      up == Upper(val)
  IN  IF IsDigit(val) THEN Num(DigitsValue(val))
      ELSE IF Contains(up, "K") THEN Magnitude(up, "K", 3)
      ELSE IF Contains(up, "M") THEN Magnitude(up, "M", 6)
      ELSE IF Contains(up, "B") THEN Magnitude(up, "B", 9)
      ELSE Num(0)

\* YouTubeScraper.convert_to_number
youtube_convert_to_number(t) ==
  IF t = <<>> THEN Num(0)
  ELSE
    LET low == Remove(Lower(t), ",")
        e == IF Contains(low, "k") THEN 3
             ELSE IF Contains(low, "m") THEN 6 ELSE 0
        text == IF Contains(low, "k") THEN Remove(low, "k")
                ELSE IF Contains(low, "m") THEN Remove(low, "m") ELSE low
    IN  IF FloatOk(text) THEN IntFloatTimes(text, e) ELSE Num(0)

\* No count text is being converted.
NumberIdle ==
  counts = [npc |-> "idle", value |-> <<>>,
            tw_number |-> Num(0), yt_number |-> Num(0)]

\* A count text has been read from the page.
NumberInit ==
  \E v \in Values :
    counts = [npc |-> "text", value |-> v,
              tw_number |-> Num(0), yt_number |-> Num(0)]

\* TwitterScraper.get_tweet_stats converts the text.
TwitterConvert ==
  /\ npc = "text"
  /\ counts' = [counts EXCEPT !.tw_number = convert_to_number(value),
                              !.npc = "twitter"]
  /\ UNCHANGED nonNumberVars

\* YouTubeScraper.perform_search converts the same text.
YouTubeConvert ==
  /\ npc = "twitter"
  /\ counts' = [counts EXCEPT !.yt_number = youtube_convert_to_number(value),
                              !.npc = "done"]
  /\ UNCHANGED nonNumberVars

NumberNext == TwitterConvert \/ YouTubeConvert

\* ------------------------------------------------------------ Amazon: extract_price
\* A span or attribute of the product element is the record
\* [kind |-> "absent" | "none" | "text", text |-> its characters]: "absent"
\* says that find_element raises NoSuchElementException, "none" that
\* get_attribute returns None.  A double is the record
\* [none |-> FALSE, n |-> n, f |-> f, above |-> a]: the double nearest to
\* n / 10^f when a = 0, the next double above it when a = 1.

\* Longest text of a price span or attribute, in characters.
MaxPriceLen == 2

PriceChars == {"1", ",", ".", "$"}

PriceTexts == UNION {[1..n -> PriceChars] : n \in 0..MaxPriceLen}

\* what find_element(...).text gives
Spans ==
  {[kind |-> "absent", text |-> <<>>]}
    \cup {[kind |-> "text", text |-> t] : t \in PriceTexts}

\* what find_element('span.a-price').get_attribute('data-a-price') gives
Attributes == Spans \cup {[kind |-> "none", text |-> <<>>]}

\* Python's None, as a price
NoPrice == [none |-> TRUE, n |-> 0, f |-> 0, above |-> 0]

\* float(s), for s with FloatOk(s)
Float(s) ==
  [none |-> FALSE, n |-> DigitsValue(Whole(s) \o Fraction(s)),
   f |-> Len(Fraction(s)), above |-> 0]

\* x / 100 in IEEE-754 double arithmetic: 1.1 / 100 is 0.011000000000000001
DivHundred(x) ==
  [none |-> FALSE, n |-> x.n, f |-> x.f + 2,
   above |-> IF x.n = 11 /\ x.f = 1 THEN 1 ELSE 0]

\* f"{price_whole.replace(',', '')}.{price_fraction}"
PrimaryText(whole, fraction) == Remove(whole, ",") \o <<".">> \o fraction

\* The first strategy: the exception raised ("" for none) and the value.
Primary(whole, fraction) ==
  IF whole.kind = "absent" \/ fraction.kind = "absent"
  THEN [exc |-> "NoSuchElementException", price |-> NoPrice]
  ELSE IF ~FloatOk(PrimaryText(whole.text, fraction.text))
  THEN [exc |-> "ValueError", price |-> NoPrice]
  ELSE [exc |-> "", price |-> Float(PrimaryText(whole.text, fraction.text))]

\* The second strategy: float(price) / 100 if price else None
Secondary(attribute) ==
  IF attribute.kind = "absent"
  THEN [exc |-> "NoSuchElementException", price |-> NoPrice]
  ELSE IF attribute.kind = "none" \/ attribute.text = <<>>
  THEN [exc |-> "", price |-> NoPrice]
  ELSE IF ~FloatOk(attribute.text)
  THEN [exc |-> "ValueError", price |-> NoPrice]
  ELSE [exc |-> "", price |-> DivHundred(Float(attribute.text))]

\* mutant: the first except clause catches the missing element only
PrimaryCaughtMissing(exc) == exc = "NoSuchElementException"

\* except: (of the first strategy)
PrimaryCaught(exc) == exc \in {"NoSuchElementException", "ValueError"}

\* except: (of the second strategy)
SecondaryCaught(exc) == exc \in {"NoSuchElementException", "ValueError"}

\* No product element is being read.
PriceIdle ==
  pricing = [ppc |-> "idle",
             price_whole |-> [kind |-> "absent", text |-> <<>>],
             price_fraction |-> [kind |-> "absent", text |-> <<>>],
             data_a_price |-> [kind |-> "absent", text |-> <<>>],
             price |-> NoPrice]

\* extract_price is called with a product element.
PriceInit ==
  \E whole \in Spans, fraction \in Spans, attribute \in Attributes :
    pricing = [ppc |-> "primary", price_whole |-> whole,
               price_fraction |-> fraction, data_a_price |-> attribute,
               price |-> NoPrice]

\* The outer try block: the whole and fraction spans.
TryPrimary ==
  /\ ppc = "primary"
  /\ LET r == Primary(price_whole, price_fraction) IN
       pricing' =
         IF r.exc = ""
         THEN [pricing EXCEPT !.price = r.price, !.ppc = "done"]
         ELSE [pricing EXCEPT !.ppc = IF PrimaryCaught(r.exc) THEN "secondary"
                                      ELSE "raised"]
  /\ UNCHANGED nonPriceVars

\* The inner try block: the data-a-price attribute.
TrySecondary ==
  /\ ppc = "secondary"
  /\ LET r == Secondary(data_a_price) IN
       pricing' =
         IF r.exc = ""
         THEN [pricing EXCEPT !.price = r.price, !.ppc = "done"]
         ELSE [pricing EXCEPT !.price = NoPrice,
                              !.ppc = IF SecondaryCaught(r.exc) THEN "done"
                                      ELSE "raised"]
  /\ UNCHANGED nonPriceVars

PriceNext == TryPrimary \/ TrySecondary

\* ------------------------------------------------------------ AmazonScraper.run

\* Most product elements one result page shows.
MaxElements == 2

\* "Limit to 5 pages to avoid blocking"
PageLimit == 5

\* mutant: one page more
PageCondLate(n) == n <= PageLimit + 1

\* while page_num <= 5
PageCond(n) == n <= PageLimit

\* mutant: a page without products is scraped like any other
EmptyPageBreakNever(shown) == FALSE

\* if not products: break
EmptyPageBreak(shown) == shown = 0

\* mutant: search_products lets the exceptions of the driver through
SearchCaughtTimeout(exc) == exc = "TimeoutException"

\* except Exception as e (of search_products)
SearchCaught(exc) == exc \in {"TimeoutException", "WebDriverException"}

\* A text is the sequence of its words and of the spaces around them; the
\* text of a count or of a price is the sequence of its characters.
Absent == [kind |-> "absent", text |-> <<>>]
Shown(t) == [kind |-> "text", text |-> t]

\* The product elements extract_product_info is called with: each field is
\* absent or shown; an attribute can also be there without a value.
Elements ==
  [title : {Absent, Shown(<<" ", "Laptop 14", " ">>)},
   price_whole : {Absent, Shown(<<"1">>)},
   price_fraction : {Absent, Shown(<<"1">>)},
   data_a_price : {Absent, Shown(<<"1", "1">>)},
   rating : {Absent, [kind |-> "none", text |-> <<>>],
             Shown(<<<<"4", ".", "1">>, <<"o", "u", "t">>>>), Shown(<<<<"N">>>>)},
   reviews : {Absent, Shown(<<"1", ",", "2", "4", "1">>), Shown(<<"1", "2">>),
              Shown(<<"1", ".", "2">>)},
   href : {Absent, [kind |-> "none", text |-> <<>>], Shown(<<"/dp/B01">>)},
   availability : {Absent, Shown(<<" ", "Only 2 left", " ">>)}]

\* an element none of whose fields is there
NoElement ==
  [title |-> Absent, price_whole |-> Absent, price_fraction |-> Absent,
   data_a_price |-> Absent, rating |-> Absent, reviews |-> Absent,
   href |-> Absent, availability |-> Absent]

\* self.base_url
base_url == <<"https://www.amazon.com">>

\* Python's None, as the return value of extract_product_info
NoInfo ==
  [none |-> TRUE, title |-> <<>>, price |-> NoPrice, rating |-> NoPrice,
   reviews |-> 0, url |-> [none |-> TRUE, text |-> <<>>], availability |-> <<>>]

\* s.strip()
RECURSIVE StripSpaces(_)
StripSpaces(s) ==
  IF s # <<>> /\ s[1] = " " THEN StripSpaces(Tail(s))
  ELSE IF s # <<>> /\ s[Len(s)] = " " THEN StripSpaces(SubSeq(s, 1, Len(s) - 1))
  ELSE s

\* extract_price(product_element)
extract_price(el) ==
  LET first == Primary(el.price_whole, el.price_fraction)
      second == Secondary(el.data_a_price)
  IN  IF first.exc = "" THEN first.price
      ELSE IF second.exc = "" THEN second.price
      ELSE NoPrice

\* float(rating_element.get_attribute('innerHTML').split(' ')[0]): the
\* exception raised ("" for none) and the value
Rating(el) ==
  IF el.rating.kind = "absent"
  THEN [exc |-> "NoSuchElementException", value |-> NoPrice]
  ELSE IF el.rating.kind = "none"
  THEN [exc |-> "AttributeError", value |-> NoPrice]
  ELSE IF ~FloatOk(el.rating.text[1])
  THEN [exc |-> "ValueError", value |-> NoPrice]
  ELSE [exc |-> "", value |-> Float(el.rating.text[1])]

\* int(reviews_element.text.replace(',', ''))
Reviews(el) ==
  IF el.reviews.kind = "absent"
  THEN [exc |-> "NoSuchElementException", value |-> 0]
  ELSE IF ~IsDigit(Remove(el.reviews.text, ","))
  THEN [exc |-> "ValueError", value |-> 0]
  ELSE [exc |-> "", value |-> DigitsValue(Remove(el.reviews.text, ","))]

\* self.base_url + url_element.get_attribute('href')
Url(el) ==
  IF el.href.kind = "absent"
  THEN [exc |-> "NoSuchElementException", value |-> <<>>]
  ELSE IF el.href.kind = "none"
  THEN [exc |-> "TypeError", value |-> <<>>]
  ELSE [exc |-> "", value |-> base_url \o el.href.text]

\* product_element.find_element(...'span.a-color-price').text, stripped
Availability(el) ==
  IF el.availability.kind = "absent"
  THEN [exc |-> "NoSuchElementException", value |-> <<>>]
  ELSE [exc |-> "", value |-> StripSpaces(el.availability.text)]

\* mutant: the inner except clauses catch a malformed value only
FieldCaughtValueError(exc) == exc = "ValueError"

\* except: (of the rating, reviews, url and availability blocks)
FieldCaught(exc) ==
  exc \in {"NoSuchElementException", "AttributeError", "TypeError", "ValueError"}

\* extract_product_info(product_element), without its timestamp field: an
\* exception outside the inner try blocks, or one that an inner except
\* clause lets through, ends in the outer except clause and None.
extract_product_info(el) ==
  LET raised == {Rating(el).exc, Reviews(el).exc, Url(el).exc,
                 Availability(el).exc} \ {""}
  IN  IF el.title.kind = "absent" THEN NoInfo
      ELSE IF \E exc \in raised : ~FieldCaught(exc) THEN NoInfo
      ELSE [none |-> FALSE,
            title |-> StripSpaces(el.title.text),
            price |-> extract_price(el),
            rating |-> IF Rating(el).exc = "" THEN Rating(el).value ELSE NoPrice,
            reviews |-> IF Reviews(el).exc = "" THEN Reviews(el).value ELSE 0,
            url |-> IF Url(el).exc = ""
                    THEN [none |-> FALSE, text |-> Url(el).value]
                    ELSE [none |-> TRUE, text |-> <<>>],
            availability |-> IF Availability(el).exc = ""
                             THEN Availability(el).value
                             ELSE <<"In Stock">>]

\* The state of a scraper at position pos, with a product element at hand.
AmazonState(pos, el) ==
  [apc |-> pos, driver |-> FALSE, page_num |-> 1, products |-> <<>>,
   pending |-> 0, csv_saved |-> FALSE, csv |-> <<>>,
   driver_quit |-> FALSE, pages |-> 0, clicks |-> 0, failed_at |-> -1,
   product_element |-> el, info |-> NoInfo]

\* No run of AmazonScraper is under way.
AmazonIdle == amazon = AmazonState("idle", NoElement)

\* AmazonScraper() has been constructed and run() is called.
AmazonInit == amazon = AmazonState("start", NoElement)

\* extract_product_info is called with a product element.
ProductInit == \E el \in Elements : amazon = AmazonState("extract", el)

\* The call returns.
ExtractProductInfo ==
  /\ apc = "extract"
  /\ amazon' = [amazon EXCEPT !.info = extract_product_info(product_element),
                              !.apc = "returned"]
  /\ UNCHANGED nonAmazonVars

\* setup_driver(): True with the driver set, or False with the driver set
\* (a call after webdriver.Chrome raised) or not; on False run() returns
\* through its finally clause.
SetupDriver ==
  /\ apc = "start"
  /\ \E ok \in BOOLEAN, made \in BOOLEAN :
       /\ ok => made
       /\ amazon' = [amazon EXCEPT !.driver = made,
                                   !.apc = IF ok THEN "search" ELSE "finally"]
  /\ UNCHANGED nonAmazonVars

\* The search page is opened and page_num is set.
GetSearchPage ==
  /\ apc = "search"
  /\ amazon' = [amazon EXCEPT !.page_num = 1, !.apc = "while"]
  /\ UNCHANGED nonAmazonVars

\* The condition of the page loop.
PageLoop ==
  /\ apc = "while"
  /\ amazon' = IF PageCond(page_num)
               THEN [amazon EXCEPT !.pages = pages + 1, !.apc = "wait"]
               ELSE [amazon EXCEPT !.apc = "save"]
  /\ UNCHANGED nonAmazonVars

\* wait_for_element and find_elements: the page shows so many product
\* elements; with none the loop is left.
WaitProducts ==
  /\ apc = "wait"
  /\ \E shown \in 0..MaxElements :
       amazon' = [amazon EXCEPT !.pending = shown,
                                !.apc = IF EmptyPageBreak(shown) THEN "save"
                                        ELSE "for"]
  /\ UNCHANGED nonAmazonVars

\* One product element: extract_product_info returns a record, which is
\* appended, or None.
ScrapeProduct ==
  /\ apc = "for"
  /\ pending > 0
  /\ \E product_info \in BOOLEAN :
       amazon' = [amazon EXCEPT
                    !.products = IF product_info
                                 THEN Append(products, Len(products) + 1)
                                 ELSE products,
                    !.pending = pending - 1]
  /\ UNCHANGED nonAmazonVars

\* "Try to go to next page": the enabled next button is found and clicked,
\* or a call of the try block raises and the loop is left.
NextPage ==
  /\ apc = "for"
  /\ pending = 0
  /\ \E clicked \in BOOLEAN :
       amazon' = IF clicked
                 THEN [amazon EXCEPT !.page_num = page_num + 1,
                                     !.clicks = clicks + 1,
                                     !.apc = "while"]
                 ELSE [amazon EXCEPT !.apc = "save"]
  /\ UNCHANGED nonAmazonVars

\* A driver call of search_products outside the inner try blocks raises
\* (get, a wait that does not time out, find_elements): the except clause
\* logs the error and search_products returns.
SearchFail ==
  /\ apc \in {"search", "wait"}
  /\ \E exc \in {"WebDriverException"} :
       amazon' = [amazon EXCEPT !.failed_at = Len(products),
                                !.apc = IF SearchCaught(exc) THEN "save"
                                        ELSE "finally"]
  /\ UNCHANGED nonAmazonVars

\* run(): save_to_csv(filename), which absorbs its own exceptions
SaveToCsv ==
  /\ apc = "save"
  /\ amazon' = [amazon EXCEPT !.csv_saved = TRUE, !.csv = products,
                              !.apc = "finally"]
  /\ UNCHANGED nonAmazonVars

\* run(): the finally clause
QuitDriver ==
  /\ apc = "finally"
  /\ amazon' = [amazon EXCEPT !.driver_quit = driver, !.apc = "done"]
  /\ UNCHANGED nonAmazonVars

AmazonNext ==
  \/ SetupDriver
  \/ GetSearchPage
  \/ PageLoop
  \/ WaitProducts
  \/ ScrapeProduct
  \/ NextPage
  \/ SearchFail
  \/ SaveToCsv
  \/ QuitDriver

\* ------------------------------------------------------------ the news collection

\* Most items the news source returns in one run.
MaxItems == 4

\* Longest requested range of one scrape_news call, in days.
MaxRange == 63

\* timedelta(days=30)
PeriodDays == 30

\* the list date_ranges of the module: the months January to November 2024
month_ranges ==
  <<<<1, 31>>, <<32, 60>>, <<61, 91>>, <<92, 121>>, <<122, 152>>, <<153, 182>>,
    <<183, 213>>, <<214, 244>>, <<245, 274>>, <<275, 305>>, <<306, 335>>>>

\* articles_per_month = 400 // len(date_ranges)
articles_per_month == 400 \div Len(month_ranges)

\* while current_date < end_date
PeriodCond(current, end) == current < end

\* any(existing['Source_URL'] == news_item['Source_URL'] for existing in all_news)
KnownArticle(url, collected) == \E i \in 1..Len(collected) : collected[i] = url

\* The urls one item can carry: the url of the first article of the output,
\* the url of the latest article of this call, a url not met before.
ItemUrls(df, collected, n) ==
  (IF df = <<>> THEN {} ELSE {df[1]})
    \cup (IF collected = <<>> THEN {} ELSE {collected[Len(collected)]})
    \cup {n + 1}

\* The state at position pos of call c, which asks for the days from start
\* to end, with df collected by the calls before it.
NewsState(pos, c, start, end, df, n) ==
  [npos |-> pos, call |-> c, start_date |-> start, end_date |-> end,
   current_date |-> start, date_ranges |-> <<>>, period |-> 1, all_news |-> <<>>,
   total_articles |-> 0, all_articles_df |-> df, offered |-> n]

\* No news collection is under way.
NewsIdle == news = NewsState("idle", 0, 1, 1, <<>>, 0)

\* The module is run: all_articles_df is empty and the month loop starts.
NewsInit == news = NewsState("month", 1, 1, 1, <<>>, 0)

\* scrape_news is called with a range of dates.
PeriodInit ==
  \E start \in {1, 32}, days \in 0..MaxRange :
    news = NewsState("split", 0, start, start + days, <<>>, 0)

\* The month loop: scrape_news is called for the next month, or the loop is
\* left and the output is exported.
CallScrapeNews ==
  /\ npos = "month"
  /\ news' = IF call <= Len(month_ranges)
             THEN NewsState("split", call, month_ranges[call][1],
                            month_ranges[call][2], all_articles_df, offered)
             ELSE [news EXCEPT !.npos = "done"]
  /\ UNCHANGED nonNewsVars

\* One iteration of the loop that splits the range into periods.
BuildPeriod ==
  /\ npos = "split"
  /\ PeriodCond(current_date, end_date)
  /\ LET range_end == IF current_date + PeriodDays < end_date
                      THEN current_date + PeriodDays ELSE end_date
     IN  news' = [news EXCEPT
                    !.date_ranges = Append(date_ranges, <<current_date, range_end>>),
                    !.current_date = range_end + 1]
  /\ UNCHANGED nonNewsVars

\* The splitting loop is left; the periods are searched in turn.
PeriodsBuilt ==
  /\ npos = "split"
  /\ ~PeriodCond(current_date, end_date)
  /\ news' = [news EXCEPT !.period = 1, !.npos = "period"]
  /\ UNCHANGED nonNewsVars

\* One item of the news results of the current period: it is appended to
\* all_news unless the call has its max_results or has met its url.
NewsItem ==
  /\ npos = "period"
  /\ call >= 1
  /\ period <= Len(date_ranges)
  /\ offered < MaxItems
  /\ \E url \in ItemUrls(all_articles_df, all_news, offered) :
       news' = IF total_articles >= articles_per_month \/ KnownArticle(url, all_news)
               THEN [news EXCEPT !.offered = offered + 1]
               ELSE [news EXCEPT !.all_news = Append(all_news, url),
                                 !.total_articles = total_articles + 1,
                                 !.offered = offered + 1]
  /\ UNCHANGED nonNewsVars

\* The results of the current period are exhausted.
NextPeriod ==
  /\ npos = "period"
  /\ call >= 1
  /\ period <= Len(date_ranges)
  /\ news' = [news EXCEPT !.period = period + 1]
  /\ UNCHANGED nonNewsVars

\* scrape_news returns its data frame, which is concatenated to the output.
ConcatArticles ==
  /\ npos = "period"
  /\ call >= 1
  /\ period > Len(date_ranges)
  /\ news' = [news EXCEPT !.all_articles_df = all_articles_df \o all_news,
                          !.call = call + 1,
                          !.npos = "month"]
  /\ UNCHANGED nonNewsVars

\* get_news raises: the except clause of the month loop prints the error
\* and continues with the next month.
CallFails ==
  /\ npos = "period"
  /\ call >= 1
  /\ period <= Len(date_ranges)
  /\ news' = [news EXCEPT !.call = call + 1, !.npos = "month"]
  /\ UNCHANGED nonNewsVars

PeriodNext == BuildPeriod \/ PeriodsBuilt

NewsNext ==
  \/ CallScrapeNews
  \/ BuildPeriod
  \/ PeriodsBuilt
  \/ NewsItem
  \/ NextPeriod
  \/ ConcatArticles
  \/ CallFails

\* ------------------------------------------------------------ specifications

\* The state after construction; the parts that a specification does not
\* run stay idle.
FeedsIdle == AmazonIdle /\ NewsIdle

Idle == StampIdle /\ NumberIdle /\ PriceIdle /\ FeedsIdle

Init == TwitterInit /\ YouTubeInit /\ Idle

Next == TwitterNext

Spec == Init /\ [][Next]_vars

YouTubeSpec == Init /\ [][YouTubeNext]_vars

\* The timestamp resolution of one tweet, for every time text and attribute.
StampStart ==
  TwitterInit /\ YouTubeInit /\ StampInit /\ NumberIdle /\ PriceIdle /\ FeedsIdle

StampSpec == StampStart /\ [][StampNext]_vars

\* The conversion of one count text by both scrapers, for every text.
NumberStart ==
  TwitterInit /\ YouTubeInit /\ StampIdle /\ NumberInit /\ PriceIdle /\ FeedsIdle

NumberSpec == NumberStart /\ [][NumberNext]_vars

\* One call of AmazonScraper.extract_price, for every product element.
PriceStart ==
  TwitterInit /\ YouTubeInit /\ StampIdle /\ NumberIdle /\ PriceInit /\ FeedsIdle

PriceSpec == PriceStart /\ [][PriceNext]_vars

\* The run keeps taking its next step as long as no driver call raises.
FairSpec == Spec /\ WF_twitterVars(TwitterStep)

\* A handle whose record is appended.
AcceptTweet == ProcessTweet /\ tweets' # tweets

\* As FairSpec, with a feed that keeps exposing tweets not collected yet: the
\* queries do not stay without a handle that is accepted for ever.
FairFeedSpec == FairSpec /\ SF_twitterVars(AcceptTweet)

\* One call of extract_product_info, for every product element.
ProductStart ==
  /\ TwitterInit /\ YouTubeInit /\ StampIdle /\ NumberIdle /\ PriceIdle
  /\ ProductInit /\ NewsIdle

ProductSpec == ProductStart /\ [][ExtractProductInfo]_vars

\* The run of the news collection, for every behaviour of the news source.
NewsStart ==
  /\ TwitterInit /\ YouTubeInit /\ StampIdle /\ NumberIdle /\ PriceIdle
  /\ AmazonIdle /\ NewsInit

NewsSpec == NewsStart /\ [][NewsNext]_vars

\* The periods of one scrape_news call, for every range of dates.
PeriodStart ==
  /\ TwitterInit /\ YouTubeInit /\ StampIdle /\ NumberIdle /\ PriceIdle
  /\ AmazonIdle /\ PeriodInit

PeriodSpec == PeriodStart /\ [][PeriodNext]_vars

\* One run of AmazonScraper, for every behaviour of the result pages.
AmazonStart ==
  /\ TwitterInit /\ YouTubeInit /\ StampIdle /\ NumberIdle /\ PriceIdle
  /\ AmazonInit /\ NewsIdle

AmazonSpec == AmazonStart /\ [][AmazonNext]_vars

\* Every step of the run that can be taken is taken: each driver call
\* returns or raises, and each wait has a timeout.
AmazonFairSpec == AmazonSpec /\ WF_amazonVars(AmazonNext)

\* The Twitter run with the history of raising handles kept.
ItemStart == TwitterInitKept /\ YouTubeInit /\ Idle

ItemSpec == ItemStart /\ [][TwitterNext]_vars

\* ------------------------------------------------------------ claims

\* C1: no two records of self.tweets have the same stripped text; the number
\* of accepted tweets equals the number of distinct texts seen so far.
NoDuplicateTweets ==
  /\ Cardinality({Strip(tweets[i].text) : i \in 1..Len(tweets)}) = Len(tweets)
  /\ Cardinality(seen_texts) = Len(tweets)

\* C1 witness: a handle showing a text accepted in an earlier iteration has
\* been processed after a refresh, with several tweets accepted.
DuplicateOffered ==
  reobserved /\ Len(tweets) >= 2 /\ Cardinality(seen_texts) = Len(tweets)

\* C2: the collection loop terminates for every feed behaviour, including a
\* feed that never yields another new tweet.
LoopTerminates == <>(pc \in {"save", "done", "failed", "quit"})

\* C3: with a feed that yields nothing for 3 steps and nothing after the
\* refresh, the loop has stopped once 2 x 3 zero-yield steps are checked.
StallExhausts ==
  zero_steps >= 2 * StallThreshold =>
    pc \in {"check", "save", "done", "failed", "quit"}

\* C4: whenever the stall counter reaches the threshold, the loop stops if
\* the accepted count has not changed since the previous breach, and
\* otherwise refreshes, resets the counter and keeps running.
ThresholdRule ==
  [][(pc = "check" /\ Breach(no_new_tweets_count) /\ pc' # "failed") =>
       IF breach_unchanged
       THEN pc' = "save"
       ELSE pc' = "while" /\ no_new_tweets_count' = 0]_vars

\* C5: the accepted list never exceeds the target.
TargetRespected == Len(tweets) <= Target

\* C5 witness: the target was met in the middle of a for loop, which a
\* further handle of the query made break.
TargetMetMidQuery ==
  pc = "stall" /\ broke /\ Len(tweets) = Target /\ new_tweets_added > 0

\* C6: self.videos never exceeds target_count.
VideoTargetRespected == Len(videos) <= target_count

\* C7: no two records of self.videos have the same url.
NoDuplicateVideos ==
  Cardinality({videos[i].url : i \in 1..Len(videos)}) = Len(videos)

\* C8: a refresh resets the stall counter to 0 and leaves the accepted tweets
\* and the seen set unchanged; a handle that shows, after the refresh, a text
\* accepted before it is rejected.
RefreshKeepsSeen ==
  /\ [][(pc = "check" /\ Breach(no_new_tweets_count) /\ pc' = "while") =>
          /\ no_new_tweets_count' = 0
          /\ tweets' = tweets
          /\ seen_texts' = seen_texts]_vars
  /\ [][(~reobserved /\ reobserved') =>
          /\ tweets' = tweets
          /\ seen_texts' = seen_texts
          /\ new_tweets_added' = new_tweets_added]_vars

\* C8 witness: in the iteration after a refresh, a handle showing a text
\* accepted before the refresh has been processed.
ReobservedAfterRefresh ==
  reobserved /\ breach_unchanged /\ no_new_tweets_count = 0 /\ Len(tweets) >= 1

\* C9: a zero-yield iteration increments the stall counter by exactly 1, a
\* yielding iteration sets it to 0, and before the threshold check it is the
\* number of consecutive zero-yield iterations since the last yield or refresh.
StallCounting ==
  /\ [][pc = "stall" =>
          /\ new_tweets_added = 0 => no_new_tweets_count' = no_new_tweets_count + 1
          /\ new_tweets_added > 0 => no_new_tweets_count' = 0]_vars
  /\ [](pc = "check" => no_new_tweets_count = zero_run)

\* C9 witness: the counter has been incremented twice in a row and stands
\* before the threshold check, after a yield had reset it.
StallCounted ==
  pc = "check" /\ no_new_tweets_count = 2 /\ Len(tweets) > 0 /\ ~breach_unchanged

\* C10: with a feed that keeps exposing tweets not collected yet, and no
\* driver call raising, the loop ends with exactly 150 tweets, which are saved.
TargetReached ==
  <>(pc = "failed" \/ (pc = "done" /\ Len(tweets) = Target /\ saved))

\* C10 witness: the run is done with the target met.
DoneWithTarget == pc = "done" /\ Len(tweets) = Target /\ saved

\* C11: when a driver call raises in the collection loop after at least one
\* tweet was accepted, the accepted tweets have been handed to save_tweets
\* by the time the run ends.
FailureStillSaves ==
  [][(pc = "failed" /\ pc' = "quit" /\ Len(tweets) >= 1) => saved]_vars

\* C12: for every displayed time text and every datetime attribute, no
\* exception leaves the timestamp resolution, and the appended record
\* carries a non-empty date and a non-empty time.
StampTotal ==
  /\ rpc # "raised"
  /\ rpc = "done" => ~Falsy(stamp.date) /\ ~Falsy(stamp.time)

\* C12 witness: a record was appended for a text with a malformed time part
\* and a malformed date part, the attribute missing.
MalformedResolved ==
  /\ rpc = "done"
  /\ time_text = <<"13:00 pm", Dot, "15 Oct, 2018">>
  /\ timestamp = None
  /\ stamp = [date |-> NowDate, time |-> NowTime]

\* C13: the attribute is parsed only if parsing the displayed text failed,
\* the collection-time default is used only if the text and the attribute
\* both failed, and a displayed text that parses as an absolute time and
\* date gives the record its date and time.
StagesInOrder ==
  /\ "attribute" \in used => parse_twitter_date(time_text) = <<None, None>>
  /\ "default" \in used =>
       /\ parse_twitter_date(time_text) = <<None, None>>
       /\ "attribute" \in used
       /\ FromIsoFormat(timestamp).exc # ""
  /\ (rpc = "done" /\ ~IsRelative(time_text)
        /\ parse_twitter_date(time_text) # <<None, None>>) =>
       /\ stamp.date = parse_twitter_date(time_text)[1]
       /\ stamp.time = parse_twitter_date(time_text)[2]
       /\ used = {}
  /\ (rpc = "done" /\ time_text = <<"9:54 PM", Dot, "3 Mar 2021">>) =>
       stamp = [date |-> "2021-03-03", time |-> "21:54:00"]
  /\ (rpc = "done" /\ time_text = <<"09:54", Dot, "Oct 15, 2018">>) =>
       stamp = [date |-> "2018-10-15", time |-> "09:54:00"]

\* C13 witness: the displayed text parsed as an absolute time and date, with
\* a well-formed attribute that names another date.
TextBeforeAttribute ==
  /\ rpc = "done"
  /\ time_text = <<"09:54", Dot, "Oct 15, 2018">>
  /\ timestamp = "2018-10-16T08:30:00.000Z"
  /\ stamp.date = "2018-10-15"

\* C14: a displayed text with a relative-time word resolves to the
\* collection time, and the datetime attribute is not parsed.
RelativeIsCollectionTime ==
  IsRelative(time_text) =>
    /\ "attribute" \notin used
    /\ rpc = "done" => stamp = [date |-> NowDate, time |-> NowTime]

\* C14 witness: a relative text was resolved with a well-formed attribute at
\* hand.
RelativeWithAttribute ==
  /\ rpc = "done"
  /\ time_text = <<"2 hours ago">>
  /\ timestamp = "2018-10-16T08:30:00.000Z"
  /\ stamp.date = NowDate

\* C15: scroll_pause_time stays within [0.2, 1.0].
PauseWithinBounds ==
  MinPause <= scroll_pause_time /\ scroll_pause_time <= MaxPause

\* C15 witness: a high-yield iteration has brought the pause down to 0.2,
\* where the step below it was cut off.
PauseAtFloor ==
  pc = "while" /\ new_tweets_added > HighYield /\ scroll_pause_time = MinPause

\* Two pauses are the same multiple of 0.1 up to the rounding of double
\* arithmetic (0.20000000000000004 and 0.2 are).
SameTenth(p, q) == (p + 500) \div 1000 = (q + 500) \div 1000

\* C16: an iteration accepting more than 5 tweets never increases the pause
\* and takes one 0.1 step off it unless it is at 0.2; an iteration accepting
\* none never decreases it and adds one 0.1 step unless it is at 1.0.  A
\* pause is at a bound when it is the bound up to rounding.
PacerSteps ==
  [][(pc = "check" /\ pc' = "while") =>
       /\ new_tweets_added > HighYield =>
            /\ scroll_pause_time' <= scroll_pause_time
            /\ ~SameTenth(scroll_pause_time, MinPause) =>
                 scroll_pause_time' = FloatSub01(scroll_pause_time)
       /\ new_tweets_added = 0 =>
            /\ scroll_pause_time' >= scroll_pause_time
            /\ ~SameTenth(scroll_pause_time, MaxPause) =>
                 scroll_pause_time' = FloatAdd01(scroll_pause_time)]_vars

\* C16 witness: a zero-yield iteration after some accepted tweets has brought
\* the pause to 1.0.
PauseRaisedToCeiling ==
  pc = "while" /\ new_tweets_added = 0 /\ Len(tweets) > 0
    /\ scroll_pause_time = MaxPause

\* C17: an iteration whose yield is neither above 5 nor zero leaves the
\* pause unchanged.
HoldBand ==
  [][(pc = "check" /\ pc' = "while" /\ new_tweets_added > 0
        /\ new_tweets_added <= HighYield) =>
       scroll_pause_time' = scroll_pause_time]_vars

\* The magnitude letters and the power of ten each stands for.
MagnitudeLetters == {"K", "k", "M", "m", "B", "b"}

Exponent(c) ==
  CASE c \in {"K", "k"} -> 3 [] c \in {"M", "m"} -> 6 [] c \in {"B", "b"} -> 9

\* The reference normalisation of C18: separators stripped; a digit string
\* is its value; a decimal followed by exactly one magnitude letter, in
\* trailing position, is multiplied and cut to an integer; all else is 0.
Normalised(v) ==
  LET s == Remove(v, ",")
      body == SubSeq(s, 1, Len(s) - 1)
  IN  IF IsDigit(s) THEN Num(DigitsValue(s))
      ELSE IF s # <<>> /\ s[Len(s)] \in MagnitudeLetters /\ FloatOk(body)
           THEN ExactTimes(body, Exponent(s[Len(s)]))
           ELSE Num(0)

\* C18: TwitterScraper.convert_to_number agrees with the reference
\* normalisation on every text over digits, ',', '.' and letters.
TwitterNormalises ==
  npc \in {"twitter", "done"} => tw_number = Normalised(value)

\* C19: YouTubeScraper.convert_to_number maps a digit string d followed by
\* K, M or B (either case) to d * 1000, d * 10^6, d * 10^9, a plain digit
\* string to itself, and the empty text and 'N/A' to 0.
YouTubeNormalises ==
  npc = "done" =>
    /\ IsDigit(value) => yt_number = Num(DigitsValue(value))
    /\ \A c \in MagnitudeLetters :
         (Len(value) >= 2 /\ value[Len(value)] = c
            /\ IsDigit(SubSeq(value, 1, Len(value) - 1))) =>
           yt_number =
             Shift(DigitsValue(SubSeq(value, 1, Len(value) - 1)), Exponent(c))
    /\ value \in {<<>>, <<"N", "/", "A">>} => yt_number = Num(0)

\* The first strategy applies: both spans are there, and their texts make a
\* decimal number once the commas are taken out of the whole part.
PrimaryWellFormed ==
  /\ price_whole.kind = "text"
  /\ price_fraction.kind = "text"
  /\ FloatOk(Remove(price_whole.text, ",") \o <<".">> \o price_fraction.text)

\* The second strategy applies: the attribute is there and is a decimal number.
SecondaryNumeric == data_a_price.kind = "text" /\ FloatOk(data_a_price.text)

\* C20: extract_price returns the value of the whole and fraction spans when
\* they are present and well-formed; else the data-a-price attribute divided
\* by 100 when it is present and numeric; None only when both fail; and no
\* exception leaves it.
PriceStrategiesInOrder ==
  /\ ppc # "raised"
  /\ ppc = "done" =>
       /\ PrimaryWellFormed =>
            /\ ~price.none
            /\ price.n = DigitsValue(SelectSeq(price_whole.text \o price_fraction.text,
                                               LAMBDA c : c \in Digits))
            /\ price.f = Len(price_fraction.text)
            /\ price.above = 0
       /\ (~PrimaryWellFormed /\ SecondaryNumeric) =>
            /\ ~price.none
            /\ price = DivHundred(Float(data_a_price.text))
       /\ price.none <=> (~PrimaryWellFormed /\ ~SecondaryNumeric)
       /\ (price_whole.text = <<"1", ",">> /\ price_fraction.text = <<"1">>
             /\ price_fraction.kind = "text") =>
            price = [none |-> FALSE, n |-> 11, f |-> 1, above |-> 0]
       /\ (price_whole.kind = "absent" /\ data_a_price.text = <<"1", "1">>) =>
            price = [none |-> FALSE, n |-> 11, f |-> 2, above |-> 0]

\* C20 witness: the whole span ends in its decimal point, which makes the
\* first strategy fail, and the price comes from the attribute.
PriceFromAttribute ==
  /\ ppc = "done"
  /\ price_whole = [kind |-> "text", text |-> <<"1", ".">>]
  /\ price_fraction = [kind |-> "text", text |-> <<"1">>]
  /\ data_a_price = [kind |-> "text", text |-> <<"1", "1">>]
  /\ price = [none |-> FALSE, n |-> 11, f |-> 2, above |-> 0]

\* C22: a handle that raises while its tweet is built does not end the for
\* loop and leaves the accepted list, the seen set and the yield counter of
\* the iteration as they were; the loop goes on with the next handle.
ItemFailureAbsorbed ==
  [][(item_failed = "no" /\ item_failed' = "yes") =>
       /\ pc = "for" /\ pc' = "for"
       /\ tweets' = tweets
       /\ seen_texts' = seen_texts
       /\ new_tweets_added' = new_tweets_added]_vars

\* C22 witness: a handle has raised in an iteration that has accepted tweets,
\* and the for loop is still running.
ItemRaised ==
  item_failed = "yes" /\ pc = "for" /\ new_tweets_added >= 1 /\ Len(tweets) >= 2

\* C24: when scroll_to_load_more() finds the page height unchanged with fewer
\* than target_count videos collected, the loop is left by its break, nothing
\* raises, and the videos collected so far are what save_videos() is called with.
StopPathSaves ==
  /\ [](ypc = "same_height" => Len(videos) < target_count)
  /\ [][ypc = "same_height" => (ypc' = "save" /\ videos' = videos)]_vars
  /\ [][ypc = "save" => (ypc' = "done" /\ ysaved' /\ videos' = videos)]_vars

\* C24 witness: the run has saved fewer than target_count videos, which only
\* the break after an unchanged page height allows.
StoppedShortAndSaved ==
  ypc = "done" /\ ysaved /\ Len(videos) >= 1 /\ Len(videos) < target_count

\* C27: self.tweets only grows at its end: at every step the list before the
\* step is a prefix of the list after it, also at the step that processes a
\* handle showing a tweet accepted before.
AppendOnly ==
  [][/\ Len(tweets') >= Len(tweets)
     /\ SubSeq(tweets', 1, Len(tweets)) = tweets]_vars

\* C27 witness: a tweet accepted before a refresh has been shown again, and
\* the same for loop has accepted further tweets behind the old ones.
GrownAfterReobservation ==
  reobserved /\ new_tweets_added >= 1 /\ Len(tweets) >= 3

\* C28: whenever the stall counter has reached the threshold at the threshold
\* check, len(self.tweets) equals last_tweet_count, so the check refreshes
\* and its break is never taken: the loop is left without an exception only
\* by its condition, with the target met.
BreakUnreachable ==
  /\ []((pc = "check" /\ no_new_tweets_count >= StallThreshold) =>
          Len(tweets) = last_tweet_count)
  /\ [][(pc = "check" /\ no_new_tweets_count >= StallThreshold) =>
          pc' \in {"while", "failed"}]_vars
  /\ [][(pc # "save" /\ pc' = "save") =>
          (pc = "while" /\ Len(tweets) >= Target)]_vars

\* C28 witness: the threshold is reached for the second time with nothing
\* accepted since the first, and tweets had been accepted before.
SecondBreach ==
  /\ pc = "check" /\ no_new_tweets_count >= StallThreshold
  /\ breach_unchanged /\ Len(tweets) >= 1

\* C29: parse_twitter_date returns both values or neither, and the date and
\* the time of the appended record are the pair of one stage: the pair parsed
\* from the displayed text, the pair parsed from the datetime attribute, or
\* the collection time.
SameStage ==
  /\ rpc = "attr" => ((date_str = None) <=> (time_str = None))
  /\ rpc = "done" =>
       \/ /\ parse_twitter_date(time_text)[1] # None
          /\ stamp = [date |-> parse_twitter_date(time_text)[1],
                      time |-> parse_twitter_date(time_text)[2]]
       \/ /\ FromIsoFormat(timestamp).exc = ""
          /\ stamp = [date |-> FromIsoFormat(timestamp).date,
                      time |-> FromIsoFormat(timestamp).time]
       \/ stamp = [date |-> NowDate, time |-> NowTime]

\* C29 witness: the time of the displayed text parses and its date does not;
\* the record carries the date and the time of the attribute.
HalfParsedText ==
  /\ rpc = "done"
  /\ time_text = <<"9:54 PM", Dot, "Oct 15">>
  /\ stamp = [date |-> "2018-10-16", time |-> "08:30:00"]

\* C23: search_products ends after at most 5 iterations of the page loop and
\* at most 5 clicks on the next button; page_num never decreases and grows
\* by 1 exactly at a click; a page without products, and a page without an
\* enabled next button, end the loop at once.
PageLoopBounded ==
  /\ [](pages <= PageLimit /\ clicks <= PageLimit /\ page_num = clicks + 1)
  /\ [][/\ page_num' \in {page_num, page_num + 1}
        /\ (page_num' = page_num + 1) <=> (clicks' = clicks + 1)]_vars
  /\ [][(apc = "wait" /\ pending' = 0) => apc' = "save"]_vars
  /\ [][(apc = "for" /\ pending = 0 /\ clicks' = clicks) => apc' = "save"]_vars
  /\ <>(apc = "done")

\* C23 witness: the run has ended after 5 pages and 5 clicks.
FivePagesScraped ==
  apc = "done" /\ pages = PageLimit /\ clicks = PageLimit /\ csv_saved

\* C25: when a driver call raises in search_products with k products
\* appended, the run ends without an exception, save_to_csv has been called
\* with exactly those k products, and the driver is quit after that call.
ProductsSurviveFailure ==
  /\ [](failed_at >= 0 => Len(products) = failed_at)
  /\ []((apc = "done" /\ failed_at >= 0) =>
          (csv_saved /\ csv = products /\ Len(csv) = failed_at /\ driver_quit))
  /\ [][(failed_at >= 0 /\ ~driver_quit /\ driver_quit') => csv_saved]_vars

\* C25 witness: a driver call raised on a later page, and the run has ended
\* with the products of the earlier pages saved.
SavedAfterDriverFailure ==
  apc = "done" /\ failed_at >= 2 /\ clicks >= 1 /\ Len(csv) = failed_at /\ driver_quit

\* C21: for a product element with a title, extract_product_info returns a
\* record whatever else is absent: price None, rating None, reviews 0 and
\* url None stand for an absent field, and a field that is there carries its
\* extracted value.
AbsentFieldsDefaulted ==
  (apc = "returned" /\ product_element.title.kind = "text") =>
    LET el == product_element IN
    /\ ~info.none
    /\ info.title = <<"Laptop 14">>
    /\ (el.price_whole = Absent /\ el.data_a_price = Absent) => info.price.none
    /\ (el.price_whole # Absent /\ el.price_fraction # Absent) =>
         info.price = [none |-> FALSE, n |-> 11, f |-> 1, above |-> 0]
    /\ (el.price_whole = Absent /\ el.data_a_price # Absent) =>
         info.price = [none |-> FALSE, n |-> 11, f |-> 2, above |-> 0]
    /\ el.rating = Absent => info.rating.none
    /\ el.rating = Shown(<<<<"4", ".", "1">>, <<"o", "u", "t">>>>) =>
         info.rating = [none |-> FALSE, n |-> 41, f |-> 1, above |-> 0]
    /\ el.reviews = Absent => info.reviews = 0
    /\ el.reviews = Shown(<<"1", ",", "2", "4", "1">>) => info.reviews = 1241
    /\ el.reviews = Shown(<<"1", "2">>) => info.reviews = 12
    /\ el.href = Absent => info.url.none
    /\ el.href = Shown(<<"/dp/B01">>) =>
         info.url = [none |-> FALSE,
                     text |-> <<"https://www.amazon.com", "/dp/B01">>]
    /\ el.availability = Absent => info.availability = <<"In Stock">>
    /\ el.availability # Absent => info.availability = <<"Only 2 left">>

\* C21 witness: a product with a title and a link and nothing else.
TitleAndLinkOnly ==
  /\ apc = "returned"
  /\ product_element =
       [NoElement EXCEPT !.title = Shown(<<" ", "Laptop 14", " ">>),
                         !.href = Shown(<<"/dp/B01">>)]
  /\ ~info.none /\ info.price.none /\ info.rating.none /\ info.reviews = 0
  /\ ~info.url.none

\* C26: no two articles of all_articles_df have the same Source_URL, within
\* one scrape_news call and across the calls of the run.
NoDuplicateArticles ==
  Cardinality({all_articles_df[i] : i \in 1..Len(all_articles_df)})
    = Len(all_articles_df)

\* C30: for every start_date <= end_date, every day from start_date to
\* end_date lies in one of the periods that scrape_news has built.
PeriodsCover ==
  npos = "period" =>
    \A d \in start_date..end_date :
      \E i \in 1..Len(date_ranges) : date_ranges[i][1] <= d /\ d <= date_ranges[i][2]

====
